---- MODULE Spec2Model ----
(***************************************************************************)
(* Model of oeis-utils (src/src/lib.rs): the OEIS "stripped" file loader.  *)
(*                                                                         *)
(* Text is a sequence of characters, each character a one-element string;  *)
(* "U+0663" stands for ARABIC-INDIC DIGIT THREE, a non-ASCII character of  *)
(* Unicode class Nd.  Integers of the i128 and BigInt types are kept as    *)
(* sign and decimal magnitude, so that the 128-bit boundary is exact.      *)
(***************************************************************************)
EXTENDS Integers, Sequences, FiniteSets, TLC

(***************************************************************************)
(* Bounds of the model.                                                    *)
(***************************************************************************)
MaxTail == 2
MaxZeros == 1
MaxBody == 3
MaxLines == 3

(***************************************************************************)
(* Characters.                                                             *)
(***************************************************************************)
AsciiDigits == {"0", "1", "2", "3", "4", "5", "6", "7", "8", "9"}

NonAsciiDigit == "U+0663"

DigitValue(c) ==
    CASE c = "0" -> 0 [] c = "1" -> 1 [] c = "2" -> 2 [] c = "3" -> 3
      [] c = "4" -> 4 [] c = "5" -> 5 [] c = "6" -> 6 [] c = "7" -> 7
      [] c = "8" -> 8 [] c = "9" -> 9

DigitChar(d) ==
    CASE d = 0 -> "0" [] d = 1 -> "1" [] d = 2 -> "2" [] d = 3 -> "3"
      [] d = 4 -> "4" [] d = 5 -> "5" [] d = 6 -> "6" [] d = 7 -> "7"
      [] d = 8 -> "8" [] d = 9 -> "9"

\* regex \d in a Unicode-mode Regex: any character of class Nd
IsReDigit(c) == c \in AsciiDigits \cup {NonAsciiDigit}

\* regex character class [,\-?\d*,]
InValsClass(c) == c \in {",", "-", "?", "*"} \/ IsReDigit(c)

(***************************************************************************)
(* Integers as sign and magnitude.  A magnitude is a sequence of digits    *)
(* 0..9 without leading zeros; zero is the empty sequence.                 *)
(***************************************************************************)
Num(neg, mag) == [neg |-> neg, mag |-> mag]

\* magnitude a <= magnitude b
MagLeq(a, b) ==
    \/ Len(a) < Len(b)
    \/ /\ Len(a) = Len(b)
       /\ \/ a = b
          \/ \E k \in 1..Len(a) :
                /\ \A j \in 1..(k - 1) : a[j] = b[j]
                /\ a[k] < b[k]

\* magnitude m * 10 + d
MagMulAdd(m, d) == IF m = <<>> /\ d = 0 THEN <<>> ELSE Append(m, d)

\* i128::MAX = 2^127 - 1 and the magnitude of i128::MIN = -2^127
I128MaxMag ==
    <<1,7,0,1,4,1,1,8,3,4,6,0,4,6,9,2,3,1,7,3,1,6,8,7,3,0,3,7,1,5,8,8,4,1,0,5,7,2,7>>

I128MinMag ==
    <<1,7,0,1,4,1,1,8,3,4,6,0,4,6,9,2,3,1,7,3,1,6,8,7,3,0,3,7,1,5,8,8,4,1,0,5,7,2,8>>

(***************************************************************************)
(* str::parse::<i128>() as used at lib.rs:84.  An optional sign, then      *)
(* ASCII digits accumulated by checked multiply-and-add (positive) or      *)
(* checked multiply-and-subtract (negative).                               *)
(***************************************************************************)
\* variant: the limit of the positive range applied to both signs
RECURSIVE I128AccumulateOneLimit(_, _, _, _)
I128AccumulateOneLimit(s, i, neg, mag) ==
    IF i > Len(s) THEN [ok |-> TRUE, val |-> Num(neg /\ mag # <<>>, mag)]
    ELSE IF s[i] \notin AsciiDigits THEN [ok |-> FALSE, kind |-> "InvalidDigit"]
    ELSE LET m == MagMulAdd(mag, DigitValue(s[i]))
         IN  IF MagLeq(m, I128MaxMag)
             THEN I128AccumulateOneLimit(s, i + 1, neg, m)
             ELSE [ok |-> FALSE, kind |-> IF neg THEN "NegOverflow" ELSE "PosOverflow"]

RECURSIVE I128Accumulate(_, _, _, _)
I128Accumulate(s, i, neg, mag) ==
    IF i > Len(s) THEN [ok |-> TRUE, val |-> Num(neg /\ mag # <<>>, mag)]
    ELSE IF s[i] \notin AsciiDigits THEN [ok |-> FALSE, kind |-> "InvalidDigit"]
    ELSE LET m == MagMulAdd(mag, DigitValue(s[i]))
         IN  IF MagLeq(m, IF neg THEN I128MinMag ELSE I128MaxMag)
             THEN I128Accumulate(s, i + 1, neg, m)
             ELSE [ok |-> FALSE, kind |-> IF neg THEN "NegOverflow" ELSE "PosOverflow"]

ParseI128(s) ==
    IF s = <<>> THEN [ok |-> FALSE, kind |-> "Empty"]
    ELSE IF s[1] \in {"+", "-"} /\ Len(s) = 1 THEN [ok |-> FALSE, kind |-> "InvalidDigit"]
    ELSE IF s[1] = "+" THEN I128Accumulate(s, 2, FALSE, <<>>)
    ELSE IF s[1] = "-" THEN I128Accumulate(s, 2, TRUE, <<>>)
    ELSE I128Accumulate(s, 1, FALSE, <<>>)

(***************************************************************************)
(* BigInt::parse_bytes(bytes, 10) as used at lib.rs:87: an optional minus  *)
(* sign, then one or more ASCII digits, of any length; None otherwise.     *)
(* Zero has no sign.                                                       *)
(***************************************************************************)
RECURSIVE BigAccumulate(_, _, _)
BigAccumulate(s, i, mag) ==
    IF i > Len(s) THEN mag
    ELSE BigAccumulate(s, i + 1, MagMulAdd(mag, DigitValue(s[i])))

BigIntParseBytes(s) ==
    LET neg  == s # <<>> /\ s[1] = "-"
        from == IF neg THEN 2 ELSE 1
    IN  IF from > Len(s) \/ \E i \in from..Len(s) : s[i] \notin AsciiDigits
        THEN [some |-> FALSE]
        ELSE LET mag == BigAccumulate(s, from, <<>>)
             IN  [some |-> TRUE, val |-> Num(neg /\ mag # <<>>, mag)]

(***************************************************************************)
(* The closure of lib.rs:84-89: one term segment to one NumberValue.       *)
(* The unwrap of a None from parse_bytes is a panic.                       *)
(***************************************************************************)
InRange(v) == [variant |-> "InRange", v |-> v]

OutOfRange(v) == [variant |-> "OutOfRange", v |-> v]

Panic == [variant |-> "Panic"]

\* variant: the variant chosen by the length of the text, not by the value
ClassifyByLength(s) ==
    LET b == BigIntParseBytes(s)
    IN  IF ~b.some THEN Panic
        ELSE IF Len(s) <= 38 THEN InRange(b.val)
        ELSE OutOfRange(b.val)

Classify(s) ==
    LET n == ParseI128(s)
    IN  IF n.ok THEN InRange(n.val)
        ELSE LET b == BigIntParseBytes(s)
             IN  IF b.some THEN OutOfRange(b.val) ELSE Panic

(***************************************************************************)
(* Display of i128 and of BigInt: the decimal text of a value.             *)
(***************************************************************************)
MagText(mag) == [k \in 1..Len(mag) |-> DigitChar(mag[k])]

ToDecimalText(v) ==
    IF v.mag = <<>> THEN <<"0">>
    ELSE IF v.neg THEN <<"-">> \o MagText(v.mag)
    ELSE MagText(v.mag)

(***************************************************************************)
(* The pattern of lib.rs:70,  A(?P<Id>\d{6}) (?P<vals>[,\-?\d*,]+),  and   *)
(* RE.captures(s) of lib.rs:73: the leftmost match, the greedy repetition  *)
(* giving up characters only until the final "," can match.                *)
(***************************************************************************)
\* "A", six \d and the space match at positions i .. i+7
HeadAt(s, i) ==
    /\ i + 7 <= Len(s)
    /\ s[i] = "A"
    /\ \A k \in 1..6 : IsReDigit(s[i + k])
    /\ s[i + 7] = " "

\* variant: a pattern without its final ","
ValsEndsNoComma(s, i) ==
    {e \in (i + 8)..Len(s) : \A k \in (i + 8)..e : InValsClass(s[k])}

\* the ends e of a vals capture s[i+8..e] that the final "," can follow
ValsEnds(s, i) ==
    {e \in (i + 8)..(Len(s) - 1) :
        /\ \A k \in (i + 8)..e : InValsClass(s[k])
        /\ s[e + 1] = ","}

SetMax(S) == CHOOSE x \in S : \A y \in S : y <= x

SetMin(S) == CHOOSE x \in S : \A y \in S : x <= y

\* variant: a lazy repetition, [..]+? , stopping before the first possible ","
ValsEndLazy(s, i) == SetMin(ValsEnds(s, i))

\* greedy [..]+ : the longest capture that still lets the pattern finish
ValsEnd(s, i) == SetMax(ValsEnds(s, i))

MatchStarts(s) == {i \in 1..Len(s) : HeadAt(s, i) /\ ValsEnds(s, i) # {}}

\* an unanchored search reports the leftmost match
MatchStart(s) == SetMin(MatchStarts(s))

NoCaptures == [matched |-> FALSE]

Captures(s) ==
    IF MatchStarts(s) = {} THEN NoCaptures
    ELSE LET i == MatchStart(s)
             e == ValsEnd(s, i)
         IN  [matched |-> TRUE, start |-> i,
              Id |-> SubSeq(s, i + 1, i + 6),
              vals |-> SubSeq(s, i + 8, e)]

(***************************************************************************)
(* str::parse::<u32>() of lib.rs:76 on the six captured characters: only   *)
(* ASCII digits convert; six digits cannot overflow 32 bits.               *)
(***************************************************************************)
RECURSIVE U32Accumulate(_, _, _)
U32Accumulate(s, i, acc) ==
    IF i > Len(s) THEN [ok |-> TRUE, val |-> acc]
    ELSE IF s[i] \notin AsciiDigits THEN [ok |-> FALSE, kind |-> "InvalidDigit"]
    ELSE U32Accumulate(s, i + 1, acc * 10 + DigitValue(s[i]))

ParseU32(s) ==
    IF s = <<>> THEN [ok |-> FALSE, kind |-> "Empty"]
    ELSE U32Accumulate(s, 1, 0)

(***************************************************************************)
(* lib.rs:81-82: split(',') then filter(|s| !s.is_empty()).                *)
(***************************************************************************)
\* the n-th piece lies between the (n-1)-th and the n-th comma; a text with
\* c commas has c + 1 pieces, empty ones included
SplitComma(s) ==
    LET commas == {k \in 1..Len(s) : s[k] = ","}
        count  == Cardinality(commas)
        cut(n) == IF n = 0 THEN 0
                  ELSE IF n = count + 1 THEN Len(s) + 1
                  ELSE CHOOSE k \in commas : Cardinality({c \in commas : c <= k}) = n
    IN  [n \in 1..(count + 1) |-> SubSeq(s, cut(n - 1) + 1, cut(n) - 1)]

\* variant: no filter, an empty piece read as zero
SegmentsEmptyAsZero(vals) ==
    LET pieces == SplitComma(vals)
    IN  [n \in 1..Len(pieces) |-> IF pieces[n] = <<>> THEN <<"0">> ELSE pieces[n]]

NonEmptySegments(vals) == SelectSeq(SplitComma(vals), LAMBDA g : g # <<>>)

(***************************************************************************)
(* Series::from_str, lib.rs:68-94.  Err(()) when the pattern is absent;    *)
(* otherwise the id, then the terms in order; an unwrap that fails is a    *)
(* panic and no value is returned.                                         *)
(***************************************************************************)
ErrResult == [tag |-> "Err"]

PanicResult(at) == [tag |-> "Panic", at |-> at]

BuildSeries(m) ==
    LET id   == ParseU32(m.Id)
        segs == NonEmptySegments(m.vals)
        vals == [k \in 1..Len(segs) |-> Classify(segs[k])]
    IN  IF ~id.ok THEN PanicResult("id")
        ELSE IF \E k \in 1..Len(vals) : vals[k] = Panic THEN PanicResult("term")
        ELSE [tag |-> "Ok", id |-> id.val, values |-> vals]

from_str(s) ==
    LET m == Captures(s)
    IN  IF m.matched THEN BuildSeries(m) ELSE ErrResult

(***************************************************************************)
(* The lines and expected values of the tests, lib.rs:100-131.             *)
(***************************************************************************)
TestLine344199 ==
    <<"A","3","4","4","1","9","9"," ",",","1","8",",","3","6",",","6","0",
      ",","2","5","2",",","7","0","8",",","8","3","4",",","9","0","0",",",
      "2","1","7","8",",","7","7","2","2",",","7","9","8","0",",">>

TestValues344199 ==
    <<18, 36, 60, 252, 708, 834, 900, 2178, 7722, 7980>>

TestLine000001 ==
    <<"A","0","0","0","0","0","1"," ",",","0",",","1",",","1",",","1",",",
      "2",",","1",",","2",",","1",",","5",",","2",",","2",",","1",",","5",
      ",","1",",","2",",","1",",","1","4",",","1",",","5",",","1",",","5",
      ",","2",",","2",",","1",",","1","5",",","2",",","2",",","5",",","4",
      ",","1",",","4",",","1",",","5","1",",","1",",","2",",","1",",","1",
      "4",",","1",",","2",",","2",",","1","4",",","1",",","6",",","1",",",
      "4",",","2",",","2",",","1",",","5","2",",","2",",","5",",","1",",",
      "5",",","1",",","1","5",",","2",",","1","3",",","2",",","2",",","1",
      ",","1","3",",","1",",","2",",","4",",","2","6","7",",","1",",","4",
      ",","1",",","5",",","1",",","4",",","1",",","5","0",",","1",",","2",
      ",","3",",","4",",","1",",","6",",","1",",","5","2",",","1","5",",",
      "2",",","1",",","1","5",",","1",",","2",",","1",",","1","2",",","1",
      ",","1","0",",","1",",","4",",","2",",">>

TestValues000001 ==
    <<0, 1, 1, 1, 2, 1, 2, 1, 5, 2, 2, 1, 5, 1, 2, 1, 14, 1, 5, 1, 5, 2, 2, 1, 15, 2, 2,
      5, 4, 1, 4, 1, 51, 1, 2, 1, 14, 1, 2, 2, 14, 1, 6, 1, 4, 2, 2, 1, 52, 2, 5, 1, 5,
      1, 15, 2, 13, 2, 2, 1, 13, 1, 2, 4, 267, 1, 4, 1, 5, 1, 4, 1, 50, 1, 2, 3, 4, 1, 6,
      1, 52, 15, 2, 1, 15, 1, 2, 1, 12, 1, 10, 1, 4, 2>>

(***************************************************************************)
(* Input sets.                                                             *)
(***************************************************************************)
SeqsUpTo(S, n) == UNION {[1..k -> S] : k \in 0..n}

\* the first 37 and 38 digits of 2^127: with a tail they give the terms
\* around the i128 boundary and beyond it
BoundaryPrefixes ==
    {<<>>,
     <<"1","7","0","1","4","1","1","8","3","4","6","0","4","6","9",
       "2","3","1","7","3","1","6","8","7","3","0","3","7","1","5","8",
       "8","4","1","0","5","7">>,
     <<"1","7","0","1","4","1","1","8","3","4","6","0","4","6","9",
       "2","3","1","7","3","1","6","8","7","3","0","3","7","1","5","8",
       "8","4","1","0","5","7","2">>}

ZeroRun(k) == [j \in 1..k |-> "0"]

Terms ==
    {sign \o ZeroRun(z) \o pre \o tail :
        sign \in {<<>>, <<"-">>}, z \in 0..MaxZeros,
        pre \in BoundaryPrefixes, tail \in SeqsUpTo(AsciiDigits, MaxTail)}

LinePrefixes ==
    {<<>>, <<"#">>, <<"A", "0", "0", "0", "0", "0", "7", " ", ",", "9", ",", "x">>, <<"A", "1", "2">>}

LineHeads ==
    {<<"A", "0", "0", "0", "0", "0", "1", " ">>, <<"A", "3", "4", "4", "1", "9", "9", " ">>, <<"A", "0", "0", "0", "0", "1", " ">>, <<"A", "0", "0", "0", "0", "0", "1", "2", " ">>, <<"A", "0", "0", "0", "0", "0", "1">>, <<"A", "0", "0", "0", "0", "0", NonAsciiDigit, " ">>, <<"B", "0", "0", "0", "0", "0", "1", " ">>}

BodyChars == {",", "5", "0", "-", "?"}

LinePosts ==
    {<<>>, <<"7">>, <<" ", "x", ",", "5", ",">>}

ExtraLines ==
    {TestLine344199, TestLine000001,
     <<"A", "0", "0", "0", "0", "0", "2", " ", ",", ",", "5", ",",
       ",", "9", ",">>,
     <<"A", "0", "0", "0", "0", "0", "3", " ", "*", ",", "5", ",">>,
     <<"A", "0", "0", "0", "0", "0", "4", " ", "5", ",",
       NonAsciiDigit, ",">>,
     <<"A", "0", "0", "0", "0", "0", "5", " ", "-", "1", "7", "0",
       "1", "4", "1", "1", "8", "3", "4", "6", "0", "4", "6", "9", "2",
       "3", "1", "7", "3", "1", "6", "8", "7", "3", "0", "3", "7", "1",
       "5", "8", "8", "4", "1", "0", "5", "7", "2", "8", ",", "1", "7",
       "0", "1", "4", "1", "1", "8", "3", "4", "6", "0", "4", "6", "9",
       "2", "3", "1", "7", "3", "1", "6", "8", "7", "3", "0", "3", "7",
       "1", "5", "8", "8", "4", "1", "0", "5", "7", "2", "8", ",">>,
     <<"A", "0", "0", "0", "0", "0", "6", " ", "1", ",", "2", "-",
       "3", ",">>}

Lines ==
    {pre \o head \o body \o post :
        pre \in LinePrefixes, head \in LineHeads,
        body \in SeqsUpTo(BodyChars, MaxBody), post \in LinePosts}
    \cup ExtraLines

\* the items that BufReader::lines yields: Ok(text) or an I/O error
OkLine(t) == [ok |-> TRUE, text |-> t]

ReadError == [ok |-> FALSE, text |-> <<>>]

SourceItems ==
    {OkLine(<<"#", "c">>),
     OkLine(<<"#", "A", "0", "0", "0", "0", "0", "3", " ", ",", "7", ",">>),
     OkLine(<<"A", "0", "0", "0", "0", "0", "1", " ", ",", "1", ",", "2",
       ",">>),
     OkLine(<<"A", "0", "0", "0", "0", "0", "2", " ", ",", ",", "5", ",",
       ",", "9", ",">>),
     OkLine(<<"j", "u", "n", "k">>),
     OkLine(<<"A", "0", "0", "0", "0", "0", "4", " ", "?", ",">>),
     OkLine(<<>>),
     ReadError}

Sources == SeqsUpTo(SourceItems, MaxLines)

(***************************************************************************)
(* State.                                                                  *)
(*   term, nv, text, nv2, cpc   one term through the classifier, then its  *)
(*                              decimal text through the classifier again  *)
(*   line, caps, parsed, ppc    one line through Series::from_str          *)
(*   source .. ret              one call of OEISDatabase::from_path        *)
(***************************************************************************)
VARIABLES term, nv, text, nv2, cpc,
          line, caps, parsed, ppc,
          source, pc, pos, skipping, series, origin, handed, ret

cvars == <<term, nv, text, nv2, cpc>>

pvars == <<line, caps, parsed, ppc>>

lvars == <<source, pc, pos, skipping, series, origin, handed, ret>>

vars == <<term, nv, text, nv2, cpc, line, caps, parsed, ppc,
          source, pc, pos, skipping, series, origin, handed, ret>>

NoValue == [variant |-> "None"]

NoResult == [tag |-> "None"]

NoReturn == [kind |-> "None"]

ClassifierIdle ==
    /\ term = <<>>
    /\ nv = NoValue
    /\ text = <<>>
    /\ nv2 = NoValue
    /\ cpc = "idle"

ParserIdle ==
    /\ line = <<>>
    /\ caps = NoCaptures
    /\ parsed = NoResult
    /\ ppc = "idle"

LoaderIdle ==
    /\ source = <<>>
    /\ pc = "idle"
    /\ pos = 0
    /\ skipping = TRUE
    /\ series = <<>>
    /\ origin = <<>>
    /\ handed = <<>>
    /\ ret = NoReturn

(***************************************************************************)
(* The classifier on one term, lib.rs:84-89, and the round trip through    *)
(* the decimal text of the value.                                          *)
(***************************************************************************)
ClassifyTerm ==
    /\ cpc = "input"
    /\ nv' = Classify(term)
    /\ cpc' = "classified"
    /\ UNCHANGED <<term, text, nv2, pvars, lvars>>

FormatValue ==
    /\ cpc = "classified"
    /\ nv.variant \in {"InRange", "OutOfRange"}
    /\ text' = ToDecimalText(nv.v)
    /\ cpc' = "formatted"
    /\ UNCHANGED <<term, nv, nv2, pvars, lvars>>

ReclassifyText ==
    /\ cpc = "formatted"
    /\ nv2' = Classify(text)
    /\ cpc' = "reclassified"
    /\ UNCHANGED <<term, nv, text, pvars, lvars>>

InitClassify ==
    /\ term \in Terms
    /\ nv = NoValue
    /\ text = <<>>
    /\ nv2 = NoValue
    /\ cpc = "input"
    /\ ParserIdle
    /\ LoaderIdle

NextClassify == ClassifyTerm \/ FormatValue \/ ReclassifyText

SpecClassify == InitClassify /\ [][NextClassify]_vars

(***************************************************************************)
(* Series::from_str on one line, lib.rs:68-94.                             *)
(***************************************************************************)
MatchLine ==
    /\ ppc = "input"
    /\ caps' = Captures(line)
    /\ ppc' = "captured"
    /\ UNCHANGED <<line, parsed, cvars, lvars>>

\* Some(m) => Ok(Self { id, values }), unless an unwrap panics
BuildFromCaptures ==
    /\ ppc = "captured"
    /\ caps.matched
    /\ parsed' = BuildSeries(caps)
    /\ ppc' = "done"
    /\ UNCHANGED <<line, caps, cvars, lvars>>

\* None => Err(())
RejectLine ==
    /\ ppc = "captured"
    /\ ~caps.matched
    /\ parsed' = ErrResult
    /\ ppc' = "done"
    /\ UNCHANGED <<line, caps, cvars, lvars>>

InitParse ==
    /\ line \in Lines
    /\ caps = NoCaptures
    /\ parsed = NoResult
    /\ ppc = "input"
    /\ ClassifierIdle
    /\ LoaderIdle

NextParse == MatchLine \/ BuildFromCaptures \/ RejectLine

SpecParse == InitParse /\ [][NextParse]_vars

(***************************************************************************)
(* OEISDatabase::from_path, lib.rs:25-41.  The iterator chain is lazy:     *)
(* collect() pulls one item of reader.lines() at a time through unwrap,    *)
(* skip_while, and from_str(..).unwrap().                                  *)
(*   pos      lines pulled from the reader so far                          *)
(*   skipping the skip_while flag: no item has been let through yet        *)
(*   series   the records collected so far                                 *)
(*   origin   for each record of series, the line number it came from      *)
(*   handed   the line numbers given to Series::from_str, in order         *)
(***************************************************************************)
StartsWithHash(t) == t # <<>> /\ t[1] = "#"

\* variant: filter in place of skip_while, every '#' line dropped
DropsEveryHashLine(flag, t) == StartsWithHash(t)

\* skip_while(|s| s.starts_with('#')): drops items only until the first
\* item for which the predicate is false
SkipWhileDrops(flag, t) == flag /\ StartsWithHash(t)

OkReturn(recs) == [kind |-> "Ok", series |-> recs]

ErrReturn == [kind |-> "Err"]

Record(r) == [id |-> r.id, values |-> r.values]

\* File::open(path) is Ok(f)
OpenFile ==
    /\ pc = "start"
    /\ pc' = "reading"
    /\ UNCHANGED <<source, pos, skipping, series, origin, handed, ret, cvars, pvars>>

\* File::open(path) is Err(e) => Err(e)
OpenFails ==
    /\ pc = "start"
    /\ pc' = "returned"
    /\ ret' = ErrReturn
    /\ UNCHANGED <<source, pos, skipping, series, origin, handed, cvars, pvars>>

\* .map(|s| s.unwrap()) on an Err item of lines()
ReadFails ==
    /\ pc = "reading"
    /\ pos < Len(source)
    /\ ~source[pos + 1].ok
    /\ pos' = pos + 1
    /\ pc' = "panicked"
    /\ UNCHANGED <<source, skipping, series, origin, handed, ret, cvars, pvars>>

SkipLine ==
    /\ pc = "reading"
    /\ pos < Len(source)
    /\ source[pos + 1].ok
    /\ SkipWhileDrops(skipping, source[pos + 1].text)
    /\ pos' = pos + 1
    /\ UNCHANGED <<source, pc, skipping, series, origin, handed, ret, cvars, pvars>>

\* variant: a record whose id is already present is not collected
ParseLineUniqueIds ==
    /\ pc = "reading"
    /\ pos < Len(source)
    /\ source[pos + 1].ok
    /\ ~SkipWhileDrops(skipping, source[pos + 1].text)
    /\ LET r == from_str(source[pos + 1].text)
       IN  /\ r.tag = "Ok"
           /\ IF \E k \in 1..Len(series) : series[k].id = r.id
              THEN UNCHANGED <<series, origin>>
              ELSE /\ series' = Append(series, Record(r))
                   /\ origin' = Append(origin, pos + 1)
    /\ handed' = Append(handed, pos + 1)
    /\ skipping' = FALSE
    /\ pos' = pos + 1
    /\ UNCHANGED <<source, pc, ret, cvars, pvars>>

\* .map(|s| Series::from_str(&s).unwrap()) on an Ok
ParseLine ==
    /\ pc = "reading"
    /\ pos < Len(source)
    /\ source[pos + 1].ok
    /\ ~SkipWhileDrops(skipping, source[pos + 1].text)
    /\ LET r == from_str(source[pos + 1].text)
       IN  /\ r.tag = "Ok"
           /\ series' = Append(series, Record(r))
    /\ origin' = Append(origin, pos + 1)
    /\ handed' = Append(handed, pos + 1)
    /\ skipping' = FALSE
    /\ pos' = pos + 1
    /\ UNCHANGED <<source, pc, ret, cvars, pvars>>

\* variant: a line that fails to parse is left out and the load goes on
ParseFailsAndContinues ==
    /\ pc = "reading"
    /\ pos < Len(source)
    /\ source[pos + 1].ok
    /\ ~SkipWhileDrops(skipping, source[pos + 1].text)
    /\ from_str(source[pos + 1].text).tag # "Ok"
    /\ handed' = Append(handed, pos + 1)
    /\ skipping' = FALSE
    /\ pos' = pos + 1
    /\ UNCHANGED <<source, pc, series, origin, ret, cvars, pvars>>

\* the same on an Err(()), or a panic inside from_str
ParseFails ==
    /\ pc = "reading"
    /\ pos < Len(source)
    /\ source[pos + 1].ok
    /\ ~SkipWhileDrops(skipping, source[pos + 1].text)
    /\ from_str(source[pos + 1].text).tag # "Ok"
    /\ handed' = Append(handed, pos + 1)
    /\ skipping' = FALSE
    /\ pos' = pos + 1
    /\ pc' = "panicked"
    /\ UNCHANGED <<source, series, origin, ret, cvars, pvars>>

\* lines() is exhausted: collect() finishes, Ok(Self { series })
Finish ==
    /\ pc = "reading"
    /\ pos = Len(source)
    /\ ret' = OkReturn(series)
    /\ pc' = "returned"
    /\ UNCHANGED <<source, pos, skipping, series, origin, handed, cvars, pvars>>

Init ==
    /\ source \in Sources
    /\ pc = "start"
    /\ pos = 0
    /\ skipping = TRUE
    /\ series = <<>>
    /\ origin = <<>>
    /\ handed = <<>>
    /\ ret = NoReturn
    /\ ClassifierIdle
    /\ ParserIdle

Next ==
    \/ OpenFile
    \/ OpenFails
    \/ ReadFails
    \/ SkipLine
    \/ ParseLine
    \/ ParseFails
    \/ Finish

Spec == Init /\ [][Next]_vars

(***************************************************************************)
(* Vocabulary of the properties, stated apart from the operators above.    *)
(***************************************************************************)
Range(q) == {q[k] : k \in 1..Len(q)}

\* an optional minus sign followed by one or more decimal digits 0-9
IsSignedDecimal(s) ==
    LET from == IF s # <<>> /\ s[1] = "-" THEN 2 ELSE 1
    IN  /\ from <= Len(s)
        /\ \A k \in from..Len(s) : s[k] \in AsciiDigits

\* the integer that a signed decimal text denotes: its digits from the
\* first non-zero one, negative when there is a minus sign and a non-zero digit
MathValue(s) ==
    LET from    == IF s[1] = "-" THEN 2 ELSE 1
        nonzero == {k \in from..Len(s) : s[k] # "0"}
        mag     == IF nonzero = {} THEN <<>>
                   ELSE LET f == CHOOSE k \in nonzero : \A j \in nonzero : k <= j
                        IN  [k \in 1..(Len(s) - f + 1) |-> DigitValue(s[f + k - 1])]
    IN  Num(s[1] = "-" /\ mag # <<>>, mag)

\* magnitude a > magnitude b, by number of digits and then digit by digit
RECURSIVE DigitsGreater(_, _, _)
DigitsGreater(a, b, k) ==
    IF k > Len(a) THEN FALSE
    ELSE IF a[k] # b[k] THEN a[k] > b[k]
    ELSE DigitsGreater(a, b, k + 1)

MagGreater(a, b) ==
    Len(a) > Len(b) \/ (Len(a) = Len(b) /\ DigitsGreater(a, b, 1))

\* -2^127 <= v <= 2^127 - 1
InSigned128(v) ==
    IF v.neg THEN ~MagGreater(v.mag, I128MinMag) ELSE ~MagGreater(v.mag, I128MaxMag)

RECURSIVE NatMag(_)
NatMag(n) == IF n = 0 THEN <<>> ELSE Append(NatMag(n \div 10), n % 10)

SmallInRange(n) == InRange(Num(FALSE, NatMag(n)))

AllInRange(ns) == [k \in 1..Len(ns) |-> SmallInRange(ns[k])]

\* the pattern occupies positions i..j of s: "A", six digits, a space, a
\* non-empty run of term-list characters, and a comma at j
PatternSpans(s, i, j) ==
    /\ i >= 1
    /\ j <= Len(s)
    /\ i + 9 <= j
    /\ s[i] = "A"
    /\ \A k \in (i + 1)..(i + 6) : IsReDigit(s[k])
    /\ s[i + 7] = " "
    /\ \A k \in (i + 8)..(j - 1) : InValsClass(s[k])
    /\ s[j] = ","

ContainsPattern(s) == \E i \in 1..Len(s) : \E j \in 1..Len(s) : PatternSpans(s, i, j)

\* the maximal comma-free stretches of v, as pairs <<first, last>>
Stretches(v) ==
    {r \in (1..Len(v)) \X (1..Len(v)) :
        /\ r[1] <= r[2]
        /\ \A k \in r[1]..r[2] : v[k] # ","
        /\ r[1] = 1 \/ v[r[1] - 1] = ","
        /\ r[2] = Len(v) \/ v[r[2] + 1] = ","}

StretchRank(v, r) == Cardinality({q \in Stretches(v) : q[1] <= r[1]})

ExampleLine ==
    <<"A", "0", "0", "0", "0", "0", "2", " ", ",", ",", "5", ",", ",", "9", ",">>

(***************************************************************************)
(* C2.  A term that is an optional minus sign followed by decimal digits   *)
(* is classified InRange exactly when its value lies in                    *)
(* -2^127 .. 2^127 - 1, OutOfRange otherwise, and in both cases carries    *)
(* exactly the value the text denotes.                                     *)
(***************************************************************************)
C2_ClassifiedByRange ==
    (cpc # "input" /\ IsSignedDecimal(term)) =>
        /\ nv.variant = (IF InSigned128(MathValue(term)) THEN "InRange" ELSE "OutOfRange")
        /\ nv.v = MathValue(term)

\* -2^127 itself, written with its 39 digits, is InRange
C2_Witness ==
    /\ cpc = "classified"
    /\ IsSignedDecimal(term)
    /\ Len(term) = 40
    /\ nv = InRange(Num(TRUE, I128MinMag))

(***************************************************************************)
(* C9.  Round trip: the decimal text of a classified value classifies to   *)
(* the same variant with the same value; a value of 40 digits comes back   *)
(* as OutOfRange with every digit unchanged.                               *)
(***************************************************************************)
C9_RoundTrip == cpc = "reclassified" => nv2 = nv

C9_Witness ==
    /\ cpc = "reclassified"
    /\ nv.variant = "OutOfRange"
    /\ Len(nv.v.mag) >= 40
    /\ text = MagText(nv.v.mag)
    /\ nv2 = nv

(***************************************************************************)
(* C3.  The values of a parsed Series are the classifications of exactly   *)
(* the non-empty comma-separated segments of the captured term list, in    *)
(* order: empty segments give no term, zeros and repeats are kept.  The    *)
(* test lines give their full lists, all InRange, and ",,5,,9" gives 5, 9. *)
(***************************************************************************)
C3_ValuesAreNonEmptySegments ==
    (ppc = "done" /\ parsed.tag = "Ok") =>
        /\ Len(parsed.values) = Cardinality(Stretches(caps.vals))
        /\ \A r \in Stretches(caps.vals) :
              parsed.values[StretchRank(caps.vals, r)]
                  = Classify(SubSeq(caps.vals, r[1], r[2]))
        /\ line = TestLine344199 => parsed.values = AllInRange(TestValues344199)
        /\ line = TestLine000001 => parsed.values = AllInRange(TestValues000001)
        /\ line = ExampleLine => parsed.values = AllInRange(<<5, 9>>)

C3_Witness ==
    /\ ppc = "done"
    /\ line = ExampleLine
    /\ caps.vals = <<",", ",", "5", ",", ",", "9">>
    /\ parsed.tag = "Ok"
    /\ parsed.values = <<SmallInRange(5), SmallInRange(9)>>

(***************************************************************************)
(* C4.  On every line that matches the pattern the six-digit run converts  *)
(* to the id: the conversion never fails, and the id is the decimal value  *)
(* of the run, within 0..999999.                                           *)
(***************************************************************************)
C4_IdConversionNeverFails ==
    (ppc = "done" /\ caps.matched) =>
        /\ ~(parsed.tag = "Panic" /\ parsed.at = "id")
        /\ parsed.tag = "Ok" =>
              /\ parsed.id \in 0..999999
              /\ parsed.id = LET d(k) == DigitValue(line[caps.start + k])
                             IN  d(1) * 100000 + d(2) * 10000 + d(3) * 1000
                                   + d(4) * 100 + d(5) * 10 + d(6)

(***************************************************************************)
(* C5.  A line that does not contain the pattern gives Err(()): no Series  *)
(* is built, neither with an id alone nor with some of the terms.          *)
(***************************************************************************)
C5_NoPatternGivesErr ==
    (ppc = "done" /\ ~ContainsPattern(line)) => parsed = ErrResult

\* "A00001 ,5,": only five digits after the prefix letter
C5_Witness ==
    /\ ppc = "done"
    /\ line = <<"A", "0", "0", "0", "0", "1", " ", ",", "5", ",">>
    /\ ~ContainsPattern(line)
    /\ parsed = ErrResult

(***************************************************************************)
(* C7.  Every non-empty segment of the captured term list of a matching    *)
(* line is a signed decimal integer, so classifying a segment never fails. *)
(***************************************************************************)
C7_SegmentsAreSignedDecimals ==
    (ppc = "done" /\ caps.matched) =>
        /\ \A g \in Range(NonEmptySegments(caps.vals)) : IsSignedDecimal(g)
        /\ ~(parsed.tag = "Panic" /\ parsed.at = "term")

(***************************************************************************)
(* C10.  The terms of a parsed Series come only from the text between the  *)
(* space after the first matching identifier and the last comma of the     *)
(* maximal run of term-list characters that follows it; a final term that  *)
(* no comma follows is left out, and parsing still succeeds.               *)
(***************************************************************************)
C10_TermsFromCapturedSpan ==
    (ppc = "done" /\ parsed.tag = "Ok") =>
        LET starts == {i \in 1..Len(line) : \E j \in 1..Len(line) : PatternSpans(line, i, j)}
            i      == CHOOSE a \in starts : \A b \in starts : a <= b
            run    == {k \in (i + 8)..Len(line) : \A m \in (i + 8)..k : InValsClass(line[m])}
            commas == {k \in run : line[k] = ","}
            c      == CHOOSE a \in commas : \A b \in commas : b <= a
            span   == SubSeq(line, i + 8, c - 1)
            segs   == NonEmptySegments(span)
        IN  /\ caps.start = i
            /\ caps.vals = span
            /\ parsed.values = [k \in 1..Len(segs) |-> Classify(segs[k])]

\* "A000001 ,5,7": the 7 has no comma after it
C10_Witness ==
    /\ ppc = "done"
    /\ line = <<"A", "0", "0", "0", "0", "0", "1", " ", ",", "5", ",", "7">>
    /\ parsed.tag = "Ok"
    /\ parsed.values = <<SmallInRange(5)>>

(***************************************************************************)
(* C1.  A load that succeeds returns exactly the Series of each line from  *)
(* the first line that does not start with '#' to the last line, in source *)
(* order, none omitted, duplicated or reordered; the lines of the initial  *)
(* run of '#' lines give no record.                                        *)
(***************************************************************************)
FirstDataLine ==
    LET data == {k \in 1..Len(source) : ~StartsWithHash(source[k].text)}
    IN  IF data = {} THEN Len(source) + 1
        ELSE CHOOSE k \in data : \A j \in data : k <= j

C1_LoadedSeriesAreDataLines ==
    (pc = "returned" /\ ret.kind = "Ok") =>
        LET f == FirstDataLine
            n == Len(source) - f + 1
        IN  /\ Len(ret.series) = n
            /\ \A k \in 1..n :
                  /\ origin[k] = f + k - 1
                  /\ from_str(source[f + k - 1].text).tag = "Ok"
                  /\ ret.series[k] = Record(from_str(source[f + k - 1].text))

\* two '#' lines, the second one even containing the pattern, then a data line
C1_Witness ==
    /\ pc = "returned"
    /\ ret.kind = "Ok"
    /\ Len(source) = 3
    /\ StartsWithHash(source[1].text)
    /\ StartsWithHash(source[2].text)
    /\ ContainsPattern(source[2].text)
    /\ ret.series = <<Record(from_str(source[3].text))>>

(***************************************************************************)
(* C6.  When a candidate line fails to parse the load stops at that line:  *)
(* nothing is returned, then or later, and no later line is read or        *)
(* parsed.                                                                 *)
(***************************************************************************)
C6_FirstFailureAborts ==
    \A k \in 1..Len(handed) :
        from_str(source[handed[k]].text).tag # "Ok" =>
            /\ k = Len(handed)
            /\ pos = handed[k]
            /\ pc = "panicked"
            /\ ret = NoReturn
            /\ handed[k] \notin Range(origin)

\* one record parsed, the next line failed, a further line never read
C6_Witness ==
    /\ pc = "panicked"
    /\ Len(series) = 1
    /\ Len(handed) = 2
    /\ pos = 2
    /\ Len(source) = 3
    /\ ret = NoReturn

(***************************************************************************)
(* C8.  A line starting with '#' that comes after a line not starting      *)
(* with '#' is not skipped: it is handed to Series::from_str.              *)
(***************************************************************************)
LateHashLine(i) ==
    /\ source[i].ok
    /\ StartsWithHash(source[i].text)
    /\ \E j \in 1..(i - 1) : source[j].ok /\ ~StartsWithHash(source[j].text)

\* as claimed: it always fails to parse and gives no record
C8_LateHashLineFails ==
    \A i \in 1..pos :
        LateHashLine(i) => i \in Range(handed) /\ i \notin Range(origin)

\* as amended: it fails, and the load aborts, when it lacks the pattern;
\* it gives its record whenever from_str parses it
C8_LateHashLineParsedAsData ==
    \A i \in 1..pos :
        LateHashLine(i) =>
            /\ i \in Range(handed)
            /\ ~ContainsPattern(source[i].text) =>
                  i \notin Range(origin) /\ pc = "panicked" /\ pos = i
            /\ from_str(source[i].text).tag = "Ok" => i \in Range(origin)

C8_Witness ==
    /\ pc = "panicked"
    /\ pos = 2
    /\ LateHashLine(2)
    /\ ~ContainsPattern(source[2].text)
    /\ handed = <<1, 2>>
    /\ origin = <<1>>

====
